---- MODULE Spec2Model ----
(***************************************************************************)
(* Model of cluster/kubernetes/resource/fluxhelmrelease.go: the scan of a  *)
(* FluxHelmRelease `values` tree for image declarations                    *)
(* (FindFluxHelmReleaseContainers), the read projection (Containers) and   *)
(* the mutator (SetContainerImage).                                        *)
(*                                                                         *)
(* Strings are sequences of one-character strings, so that parsing,        *)
(* rendering, concatenation and sort.Strings are computed, not assumed.    *)
(* A dynamically typed Go value is a record [t, s, kind, m]:               *)
(*   t = "str"  : a string, s its characters                               *)
(*   t = "bool" : any scalar that is not a string                          *)
(*   t = "map"  : a mapping m; kind = "str" is map[string]interface{},     *)
(*                kind = "any" is map[interface{}]interface{}              *)
(*   t = "nil"  : the result of indexing a map at a missing key            *)
(***************************************************************************)
EXTENDS Integers, Sequences, FiniteSets, TLC

VARIABLES
    values,   \* fhr.Spec.Values, the tree the calls read and write
    mirror,   \* the same document decoded from the other encoding
    initial,  \* values as the decoder handed it over
    pre,      \* values before the last call
    last,     \* the last call on values: arguments, visits, result
    mlast     \* the same call on mirror

vars == <<values, mirror, initial, pre, last, mlast>>

\* Largest number of top-level keys of a generated tree.
MaxKeys == 2

-----------------------------------------------------------------------------
(* Strings *)

\* The characters in use, in byte order (the order sort.Strings compares by).
Alphabet ==
    << "-", ".", "/", "0", "1", "2", "3", "4", "5", "6", "7", "8", "9", ":",
       "a", "b", "c", "d", "e", "f", "g", "h", "i", "j", "k", "l", "m",
       "n", "o", "p", "q", "r", "s", "t", "u", "v", "w", "x", "y", "z" >>

RankOf ==
    [c \in {Alphabet[i] : i \in 1..Len(Alphabet)} |->
        CHOOSE i \in 1..Len(Alphabet) : Alphabet[i] = c]

\* The position of the character c in byte order.
Rank(c) == RankOf[c]

\* a < b as Go compares strings: bytewise, a proper prefix first.
StrLess(a, b) ==
    \E i \in 1..Len(b) :
        /\ \A j \in 1..(i - 1) : j <= Len(a) /\ a[j] = b[j]
        /\ (i > Len(a) \/ Rank(a[i]) < Rank(b[i]))

kImage == << "i", "m", "a", "g", "e" >>
kTag == << "t", "a", "g" >>
kRepository == << "r", "e", "p", "o", "s", "i", "t", "o", "r", "y" >>
kFirst == << "f", "i", "r", "s", "t" >>
kEnabled == << "e", "n", "a", "b", "l", "e", "d" >>
kPersistence == << "p", "e", "r", "s", "i", "s", "t", "e", "n", "c", "e" >>
kBar == << "b", "a", "r" >>
kFoo == << "f", "o", "o" >>

ReleaseContainerName == << "c", "h", "a", "r", "t", "-", "i", "m", "a", "g", "e" >>

-----------------------------------------------------------------------------
(* Dynamically typed values *)

NoMap == << >>

StrV(s) == [t |-> "str", s |-> s, kind |-> "", m |-> NoMap]
BoolV == [t |-> "bool", s |-> << >>, kind |-> "", m |-> NoMap]
NilV == [t |-> "nil", s |-> << >>, kind |-> "", m |-> NoMap]
MapV(kind, f) == [t |-> "map", s |-> << >>, kind |-> kind, m |-> f]

\* m[k] of a Go map: the zero interface value when the key is missing.
Lookup(m, k) == IF k \in DOMAIN m THEN m[k] ELSE NilV

\* m[k] = v of a Go map: the key is added when missing.
Assign(m, k, v) == [x \in (DOMAIN m) \cup {k} |-> IF x = k THEN v ELSE m[x]]

IsString(v) == v.t = "str"

-----------------------------------------------------------------------------
(* The image package: image.Ref, image.ParseRef, Ref.String, Name.String *)

RECURSIVE Split(_, _)
\* strings.Split(s, sep) for a one-character separator.
Split(s, sep) ==
    IF \E i \in 1..Len(s) : s[i] = sep
    THEN LET i == CHOOSE i \in 1..Len(s) :
                      s[i] = sep /\ \A j \in 1..(i - 1) : s[j] # sep
         IN  << SubSeq(s, 1, i - 1) >> \o Split(SubSeq(s, i + 1, Len(s)), sep)
    ELSE << s >>

RECURSIVE Join(_, _)
\* strings.Join(parts, sep).
Join(parts, sep) ==
    IF Len(parts) = 0 THEN << >>
    ELSE IF Len(parts) = 1 THEN parts[1]
    ELSE parts[1] \o << sep >> \o Join(Tail(parts), sep)

IsAlnum(c) == Rank(c) > Rank("/") /\ c # ":"

Localhost == << "l", "o", "c", "a", "l", "h", "o", "s", "t" >>

\* domainRegexp.MatchString(e): the pattern is not anchored, so it matches
\* when e contains `localhost` or a dot between two alphanumerics.
DomainMatch(e) ==
    \/ \E i \in 1..Len(e) :
          /\ i + Len(Localhost) - 1 <= Len(e)
          /\ SubSeq(e, i, i + Len(Localhost) - 1) = Localhost
    \/ \E i \in 2..(Len(e) - 1) :
          e[i] = "." /\ IsAlnum(e[i - 1]) /\ IsAlnum(e[i + 1])

ZeroRef == [Domain |-> << >>, Image |-> << >>, Tag |-> << >>]

NoRef == [ok |-> FALSE, ref |-> ZeroRef]

\* image.ParseRef(s): [ok, ref]; ok = FALSE is a returned error.
ParseRef(s) ==
    IF s = << >> THEN NoRef
    ELSE IF s[1] = "/" \/ s[Len(s)] = "/" THEN NoRef
    ELSE
      LET Tagged(domain, img, imageParts) ==
              IF Len(imageParts) = 1
              THEN [ok |-> TRUE,
                    ref |-> [Domain |-> domain, Image |-> img, Tag |-> << >>]]
              ELSE IF Len(imageParts) = 2
              THEN IF imageParts[1] = << >> \/ imageParts[2] = << >> THEN NoRef
                   ELSE [ok |-> TRUE,
                         ref |-> [Domain |-> domain, Image |-> imageParts[1],
                                  Tag |-> imageParts[2]]]
              ELSE NoRef
          Named(domain, img) == Tagged(domain, img, Split(img, ":"))
          Elements(elements) ==
              IF \/ Len(elements) > 2
                 \/ Len(elements) = 2 /\ DomainMatch(elements[1])
              THEN Named(elements[1], Join(Tail(elements), "/"))
              ELSE Named(<< >>, s)
      IN  Elements(Split(s, "/"))

\* image.Name.String().
NameString(ref) ==
    IF ref.Image = << >> THEN << >>
    ELSE (IF ref.Domain # << >> THEN ref.Domain \o << "/" >> ELSE << >>)
         \o ref.Image

\* image.Ref.String().
RefString(ref) ==
    NameString(ref) \o (IF ref.Tag # << >> THEN << ":" >> \o ref.Tag ELSE << >>)

-----------------------------------------------------------------------------
(* interpret_stringmap, interpret_anymap and the setters they return *)

NoDecl == [ok |-> FALSE, image |-> ZeroRef, setter |-> [object |-> FALSE, taggy |-> FALSE]]

interpret_stringmap(m) ==
    LET img == Lookup(m, kImage)
        taggy == kTag \in DOMAIN m /\ IsString(m[kTag])
        String(p) ==
            IF p.ok
            THEN [ok |-> TRUE,
                  image |-> IF taggy THEN [p.ref EXCEPT !.Tag = m[kTag].s]
                                     ELSE p.ref,
                  setter |-> [object |-> FALSE, taggy |-> taggy]]
            ELSE NoDecl
        Object(p) ==
            IF p.ok
            THEN [ok |-> TRUE, image |-> p.ref,
                  setter |-> [object |-> TRUE, taggy |-> FALSE]]
            ELSE NoDecl
    IN  IF img.t = "str"
        THEN String(ParseRef(img.s))
        ELSE IF img.t = "map" /\ img.kind = "str"
        THEN IF IsString(Lookup(img.m, kRepository))
             THEN IF IsString(Lookup(img.m, kTag))
                  THEN Object(ParseRef(img.m[kRepository].s \o << ":" >>
                                       \o img.m[kTag].s))
                  ELSE NoDecl
             ELSE NoDecl
        ELSE IF img.t = "map" /\ img.kind = "any"
        THEN IF IsString(Lookup(img.m, kRepository))
             THEN IF IsString(Lookup(img.m, kTag))
                  THEN Object(ParseRef(img.m[kRepository].s \o << ":" >>
                                       \o img.m[kTag].s))
                  ELSE NoDecl
             ELSE NoDecl
        ELSE NoDecl

\* interpret_anymap with the nested case left at the string-keyed type.
interpret_anymap_StringKeyedObject(m) ==
    LET img == Lookup(m, kImage)
        taggy == kTag \in DOMAIN m /\ IsString(m[kTag])
        String(p) ==
            IF p.ok
            THEN [ok |-> TRUE,
                  image |-> IF taggy THEN [p.ref EXCEPT !.Tag = m[kTag].s]
                                     ELSE p.ref,
                  setter |-> [object |-> FALSE, taggy |-> taggy]]
            ELSE NoDecl
        Object(p) ==
            IF p.ok
            THEN [ok |-> TRUE, image |-> p.ref,
                  setter |-> [object |-> TRUE, taggy |-> FALSE]]
            ELSE NoDecl
    IN  IF img.t = "str"
        THEN String(ParseRef(img.s))
        ELSE IF img.t = "map" /\ img.kind = "str"
        THEN IF IsString(Lookup(img.m, kRepository))
             THEN IF IsString(Lookup(img.m, kTag))
                  THEN Object(ParseRef(img.m[kRepository].s \o << ":" >>
                                       \o img.m[kTag].s))
                  ELSE NoDecl
             ELSE NoDecl
        ELSE NoDecl

interpret_anymap(m) ==
    LET img == Lookup(m, kImage)
        taggy == kTag \in DOMAIN m /\ IsString(m[kTag])
        String(p) ==
            IF p.ok
            THEN [ok |-> TRUE,
                  image |-> IF taggy THEN [p.ref EXCEPT !.Tag = m[kTag].s]
                                     ELSE p.ref,
                  setter |-> [object |-> FALSE, taggy |-> taggy]]
            ELSE NoDecl
        Object(p) ==
            IF p.ok
            THEN [ok |-> TRUE, image |-> p.ref,
                  setter |-> [object |-> TRUE, taggy |-> FALSE]]
            ELSE NoDecl
    IN  IF img.t = "str"
        THEN String(ParseRef(img.s))
        ELSE IF img.t = "map" /\ img.kind = "any"
        THEN IF IsString(Lookup(img.m, kRepository))
             THEN IF IsString(Lookup(img.m, kTag))
                  THEN Object(ParseRef(img.m[kRepository].s \o << ":" >>
                                       \o img.m[kTag].s))
                  ELSE NoDecl
             ELSE NoDecl
        ELSE NoDecl

\* RunSetter with a split declaration recombined into one `image` string.
RunSetter_Recombine(m, setter, ref) ==
    IF setter.object
    THEN Assign(m, kImage,
                [m[kImage] EXCEPT !.m =
                    Assign(Assign(m[kImage].m, kRepository, StrV(NameString(ref))),
                           kTag, StrV(ref.Tag))])
    ELSE Assign(m, kImage, StrV(RefString(ref)))

\* RunSetter with every string declaration written as name and tag.
RunSetter_AlwaysSplit(m, setter, ref) ==
    IF setter.object
    THEN Assign(m, kImage,
                [m[kImage] EXCEPT !.m =
                    Assign(Assign(m[kImage].m, kRepository, StrV(NameString(ref))),
                           kTag, StrV(ref.Tag))])
    ELSE Assign(Assign(m, kImage, StrV(NameString(ref))), kTag, StrV(ref.Tag))

\* Calling the ImageSetter that interpret_* returned for the mapping m.
RunSetter(m, setter, ref) ==
    IF setter.object
    THEN Assign(m, kImage,
                [m[kImage] EXCEPT !.m =
                    Assign(Assign(m[kImage].m, kRepository, StrV(NameString(ref))),
                           kTag, StrV(ref.Tag))])
    ELSE IF setter.taggy
    THEN Assign(Assign(m, kImage, StrV(NameString(ref))), kTag, StrV(ref.Tag))
    ELSE Assign(m, kImage, StrV(RefString(ref)))

-----------------------------------------------------------------------------
(* sorted_keys *)

RECURSIVE Insert(_, _)
\* One step of sort.Strings: k put in its place in the sorted sequence.
Insert(sorted, k) ==
    IF sorted = << >> THEN << k >>
    ELSE IF StrLess(k, sorted[1]) THEN << k >> \o sorted
    ELSE << sorted[1] >> \o Insert(Tail(sorted), k)

RECURSIVE SortStrings(_)
SortStrings(keys) ==
    IF keys = << >> THEN << >>
    ELSE Insert(SortStrings(Tail(keys)), keys[1])

\* The orders in which `range` may yield the keys of a map.
RangeOrders(m) ==
    {o \in [1..Cardinality(DOMAIN m) -> DOMAIN m] :
        \A i, j \in DOMAIN o : i # j => o[i] # o[j]}

\* sorted_keys without the sort.
sorted_keys_Unsorted(m, order) == order

\* order is the order in which `for k := range values` yields the keys.
sorted_keys(m, order) == SortStrings(order)

-----------------------------------------------------------------------------
(* The visit callbacks and FindFluxHelmReleaseContainers *)

NilErr == [kind |-> "nil", container |-> << >>]
NotFoundErr(container) == [kind |-> "notfound", container |-> container]
VisitErr(container) == [kind |-> "visit", container |-> container]

\* What the callbacks accumulate: the (name, image) pairs visit was called
\* with, the `found` flag, the positions at which a setter was called and
\* the errors visit returned.
InitAcc == [visited |-> << >>, found |-> FALSE, setAt |-> << >>, returned |-> << >>]

\* The closure of Containers().
VisitContainers(acc, name, image, setter, m) ==
    [m |-> m,
     err |-> NilErr,
     acc |-> [acc EXCEPT !.visited = Append(@, [Name |-> name, Image |-> image])]]

\* The closure of SetContainerImage without the comparison of names.
VisitSet_AnyName(container, ref, acc, name, image, setter, m) ==
    LET seen == Append(acc.visited, [Name |-> name, Image |-> image])
    IN  [m |-> RunSetter(m, setter, ref),
         err |-> NilErr,
         acc |-> [acc EXCEPT !.visited = seen, !.found = TRUE,
                             !.setAt = Append(@, Len(seen))]]

\* The closure of SetContainerImage(container, ref).
VisitSet(container, ref, acc, name, image, setter, m) ==
    LET seen == Append(acc.visited, [Name |-> name, Image |-> image])
    IN  IF container = name
        THEN [m |-> RunSetter(m, setter, ref),
              err |-> NilErr,
              acc |-> [acc EXCEPT !.visited = seen, !.found = TRUE,
                                  !.setAt = Append(@, Len(seen))]]
        ELSE [m |-> m, err |-> NilErr, acc |-> [acc EXCEPT !.visited = seen]]

\* A caller's closure that returns an error for the declaration named
\* container and nil for every other.
VisitFailing(container, acc, name, image, setter, m) ==
    [m |-> m,
     err |-> IF container = name THEN VisitErr(container) ELSE NilErr,
     acc |-> [acc EXCEPT !.visited = Append(@, [Name |-> name, Image |-> image])]]

\* visit(name, image, setter), for the closure the visitor record stands for.
\* The error each call returns is kept in acc.returned.
Visit(visitor, acc, name, image, setter, m) ==
    LET Returned(r) ==
            [m |-> r.m, acc |-> [r.acc EXCEPT !.returned = Append(@, r.err)]]
    IN  IF visitor.mode = "set"
        THEN Returned(VisitSet(visitor.container, visitor.ref, acc, name, image,
                               setter, m))
        ELSE IF visitor.mode = "fail"
        THEN Returned(VisitFailing(visitor.container, acc, name, image, setter, m))
        ELSE Returned(VisitContainers(acc, name, image, setter, m))

\* The loop body with the top-level `image` key left out of the scan.
ScanKey_SkipImage(vals, k, visitor, acc) ==
    LET v == vals[k]
        Visited(r) ==
            [values |-> [vals EXCEPT ![k] = [v EXCEPT !.m = r.m]], acc |-> r.acc]
        Interpreted(d) ==
            IF d.ok THEN Visited(Visit(visitor, acc, k, d.image, d.setter, v.m))
            ELSE [values |-> vals, acc |-> acc]
    IN  IF k = kImage THEN [values |-> vals, acc |-> acc]
        ELSE IF v.t = "map" /\ v.kind = "str"
        THEN Interpreted(interpret_stringmap(v.m))
        ELSE IF v.t = "map" /\ v.kind = "any"
        THEN Interpreted(interpret_anymap(v.m))
        ELSE [values |-> vals, acc |-> acc]

\* The body of the loop over sorted_keys(values), for the key k: the type
\* switch on values[k].
ScanKey(vals, k, visitor, acc) ==
    LET v == vals[k]
        Visited(r) ==
            [values |-> [vals EXCEPT ![k] = [v EXCEPT !.m = r.m]], acc |-> r.acc]
        Interpreted(d) ==
            IF d.ok THEN Visited(Visit(visitor, acc, k, d.image, d.setter, v.m))
            ELSE [values |-> vals, acc |-> acc]
    IN  IF v.t = "map" /\ v.kind = "str"
        THEN Interpreted(interpret_stringmap(v.m))
        ELSE IF v.t = "map" /\ v.kind = "any"
        THEN Interpreted(interpret_anymap(v.m))
        ELSE [values |-> vals, acc |-> acc]

RECURSIVE ScanKeys(_, _, _, _, _)
\* The loop `for _, k := range sorted_keys(values)` from position i on.
ScanKeys(vals, keys, i, visitor, acc) ==
    LET Rest(r) == ScanKeys(r.values, keys, i + 1, visitor, r.acc)
    IN  IF i > Len(keys) THEN [values |-> vals, acc |-> acc]
        ELSE Rest(ScanKey(vals, keys[i], visitor, acc))

\* The scan without the return after a direct-form match.
FindFluxHelmReleaseContainers_NoReturn(vals, order, visitor) ==
    LET Scanned(r) == [values |-> r.values, acc |-> r.acc, err |-> NilErr]
        Visited(r) ==
            Scanned(ScanKeys(r.m, sorted_keys(vals, order), 1, visitor, r.acc))
        Interpreted(d) ==
            IF d.ok
            THEN Visited(Visit(visitor, InitAcc, ReleaseContainerName, d.image,
                               d.setter, vals))
            ELSE Visited([m |-> vals, acc |-> InitAcc])
    IN  Interpreted(interpret_stringmap(vals))

\* The scan with the per-container form tried first and the direct form
\* only when it found nothing.
FindFluxHelmReleaseContainers_PerContainerFirst(vals, order, visitor) ==
    LET Visited(r) == [values |-> r.m, acc |-> r.acc, err |-> NilErr]
        Interpreted(r, d) ==
            IF r.acc.visited = << >> /\ d.ok
            THEN Visited(Visit(visitor, InitAcc, ReleaseContainerName, d.image,
                               d.setter, vals))
            ELSE [values |-> r.values, acc |-> r.acc, err |-> NilErr]
    IN  Interpreted(ScanKeys(vals, sorted_keys(vals, order), 1, visitor, InitAcc),
                    interpret_stringmap(vals))

\* [values, acc, err]: the tree after the scan, what the callback
\* accumulated and the error returned.
FindFluxHelmReleaseContainers(vals, order, visitor) ==
    LET Visited(r) == [values |-> r.m, acc |-> r.acc, err |-> NilErr]
        Scanned(r) == [values |-> r.values, acc |-> r.acc, err |-> NilErr]
        Interpreted(d) ==
            IF d.ok
            THEN Visited(Visit(visitor, InitAcc, ReleaseContainerName, d.image,
                               d.setter, vals))
            ELSE Scanned(ScanKeys(vals, sorted_keys(vals, order), 1, visitor,
                                  InitAcc))
    IN  Interpreted(interpret_stringmap(vals))

\* FluxHelmRelease.Containers(): [values, acc, err], the containers in
\* acc.visited; the error of the scan is dropped.
ContainersCall(vals, order) ==
    [FindFluxHelmReleaseContainers(vals, order,
         [mode |-> "collect", container |-> << >>, ref |-> ZeroRef])
     EXCEPT !.err = NilErr]

\* SetContainerImage without the check of `found`.
SetContainerImageCall_NoNotFound(vals, order, container, ref) ==
    FindFluxHelmReleaseContainers(vals, order,
        [mode |-> "set", container |-> container, ref |-> ref])

\* FluxHelmRelease.SetContainerImage(container, ref): [values, acc, err].
SetContainerImageCall(vals, order, container, ref) ==
    LET Scanned(r) ==
            IF r.err # NilErr THEN r
            ELSE IF ~r.acc.found THEN [r EXCEPT !.err = NotFoundErr(container)]
            ELSE r
    IN  Scanned(FindFluxHelmReleaseContainers(vals, order,
                    [mode |-> "set", container |-> container, ref |-> ref]))

-----------------------------------------------------------------------------
(* The trees a decoder hands over, and the arguments of the calls *)

sA1 == << "a", ":", "1" >>
sA == << "a" >>
sOne == << "1" >>
sTwo == << "2" >>
sX == << "x" >>
sColon == << ":" >>
sR == << "r" >>

Keys == {kImage, kTag, kBar, kFoo, ReleaseContainerName}

\* The values a generated tree may hold under the top-level key k, with
\* every mapping string-keyed.
KeyOptions(k) ==
    IF k = kImage
    THEN { StrV(sA1), StrV(sColon),
           MapV("str", (kRepository :> StrV(sA)) @@ (kTag :> StrV(sOne))),
           MapV("str", (kImage :> StrV(sA1))),
           MapV("str", (kImage :> StrV(sA)) @@ (kRepository :> StrV(sR))
                       @@ (kTag :> StrV(<< >>))) }
    ELSE IF k = kTag
    THEN { StrV(sTwo), BoolV }
    ELSE IF k = kBar
    THEN { MapV("str", (kFirst :> StrV(sX)) @@ (kImage :> StrV(sA1))),
           MapV("str", (kFirst :> StrV(sX)) @@ (kImage :> StrV(sA))
                       @@ (kTag :> StrV(sOne))),
           MapV("str", (kImage :> MapV("str", (kRepository :> StrV(sA))
                                             @@ (kTag :> StrV(sOne))))
                       @@ (kPersistence :> MapV("str", (kEnabled :> BoolV)))) }
    ELSE IF k = kFoo
    THEN { MapV("str", (kImage :> StrV(sA1))),
           MapV("str", (kFirst :> StrV(sX))) }
    ELSE { MapV("str", (kImage :> StrV(sA1))) }

AllOptions == UNION {KeyOptions(k) : k \in Keys}

Trees ==
    UNION { {t \in [S -> AllOptions] : \A k \in S : t[k] \in KeyOptions(k)} :
            S \in {S \in SUBSET Keys : Cardinality(S) <= MaxKeys} }

RECURSIVE SetKind(_, _)
\* v with every mapping in it of the given kind.
SetKind(v, kind) ==
    IF v.t = "map"
    THEN MapV(kind, [k \in DOMAIN v.m |-> SetKind(v.m[k], kind)])
    ELSE v

\* Spec.Values as the decoder of the given encoding builds it: the top level
\* is a map[string]interface{} in both; the mappings below are string-keyed
\* from JSON and interface-keyed from YAML.
Decode(t, enc) ==
    [k \in DOMAIN t |-> SetKind(t[k], IF enc = "yaml" THEN "any" ELSE "str")]

\* The tree with the representation of its mappings forgotten.
Logical(t) == [k \in DOMAIN t |-> SetKind(t[k], "str")]

NewRefStrings == { << "d", ".", "o", "/", "b", ":", "2" >>, << "b" >> }

\* The references a caller passes: parsed ones, and the zero image.Ref.
NewRefs == {ParseRef(s).ref : s \in NewRefStrings} \cup {ZeroRef}

Names(t) == (DOMAIN t) \cup {ReleaseContainerName}

-----------------------------------------------------------------------------
(* The state machine *)

Record(op, container, ref, r) ==
    [op |-> op, container |-> container, ref |-> ref, err |-> r.err,
     visited |-> r.acc.visited, found |-> r.acc.found, setAt |-> r.acc.setAt,
     returned |-> r.acc.returned]

NoCall ==
    Record("init", << >>, ZeroRef, [err |-> NilErr, acc |-> InitAcc])

Init ==
    \E t \in Trees, enc \in {"json", "yaml"} :
        /\ values = Decode(t, enc)
        /\ mirror = Decode(t, IF enc = "json" THEN "yaml" ELSE "json")
        /\ initial = values
        /\ pre = values
        /\ last = NoCall
        /\ mlast = NoCall

\* No call is under way: the caller has taken the result of the last one.
Idle == last.op = "init"

\* fhr.Containers() on the tree and on its mirror.
Containers ==
    /\ Idle
    /\ \E order \in RangeOrders(values) :
          \E r \in {ContainersCall(values, order)},
             q \in {ContainersCall(mirror, order)} :
              /\ values' = r.values
              /\ mirror' = q.values
              /\ last' = Record("Containers", << >>, ZeroRef, r)
              /\ mlast' = Record("Containers", << >>, ZeroRef, q)
    /\ pre' = values
    /\ UNCHANGED initial

\* fhr.SetContainerImage(container, ref) on the tree and on its mirror.
SetContainerImage ==
    /\ Idle
    /\ \E order \in RangeOrders(values), container \in Names(values),
          ref \in NewRefs :
          \E r \in {SetContainerImageCall(values, order, container, ref)},
             q \in {SetContainerImageCall(mirror, order, container, ref)} :
              /\ values' = r.values
              /\ mirror' = q.values
              /\ last' = Record("SetContainerImage", container, ref, r)
              /\ mlast' = Record("SetContainerImage", container, ref, q)
    /\ pre' = values
    /\ UNCHANGED initial

\* FindFluxHelmReleaseContainers(values, visit) with a visit that returns an
\* error for the declaration named container.
FindWithFailingVisit ==
    /\ Idle
    /\ \E order \in RangeOrders(values), container \in Names(values) :
          \E v \in {[mode |-> "fail", container |-> container, ref |-> ZeroRef]} :
          \E r \in {FindFluxHelmReleaseContainers(values, order, v)},
             q \in {FindFluxHelmReleaseContainers(mirror, order, v)} :
              /\ values' = r.values
              /\ mirror' = q.values
              /\ last' = Record("Find", container, ZeroRef, r)
              /\ mlast' = Record("Find", container, ZeroRef, q)
    /\ pre' = values
    /\ UNCHANGED initial

\* The call returns: the caller takes its result and keeps the tree.
Return ==
    /\ ~Idle
    /\ last' = NoCall
    /\ mlast' = NoCall
    /\ pre' = values
    /\ UNCHANGED <<values, mirror, initial>>

Next == Containers \/ SetContainerImage \/ FindWithFailingVisit \/ Return

Spec == Init /\ [][Next]_vars

-----------------------------------------------------------------------------
(* Vocabulary of the properties *)

\* The mapping m declares an image in one of the three sub-cases: a parsable
\* `image` string (with or without a string `tag` beside it), or an `image`
\* mapping whose string `repository` and `tag` parse when joined.
DeclShape(m) ==
    LET img == Lookup(m, kImage)
    IN  \/ img.t = "str" /\ ParseRef(img.s).ok
        \/ /\ img.t = "map"
           /\ IsString(Lookup(img.m, kRepository))
           /\ IsString(Lookup(img.m, kTag))
           /\ ParseRef(img.m[kRepository].s \o << ":" >> \o img.m[kTag].s).ok

\* The top-level `image` field of the tree matches the direct form.
DirectForm(t) == DeclShape(t)

\* The mapping that holds the declaration named n, in the tree now, located
\* as it was in the tree t0 before the call.
DeclMap(t0, now, n) == IF DirectForm(t0) THEN now ELSE now[n].m

IsObjectDecl(m) == Lookup(m, kImage).t = "map"
IsSplitDecl(m) ==
    Lookup(m, kImage).t = "str" /\ kTag \in DOMAIN m /\ IsString(m[kTag])
IsFlatDecl(m) == Lookup(m, kImage).t = "str" /\ ~IsSplitDecl(m)

NamesOf(visited) == [i \in DOMAIN visited |-> visited[i].Name]

SetSucceeded == last.op = "SetContainerImage" /\ last.err = NilErr

\* What Containers() called now would return, for the range order o.
ContainersOf(t, o) == ContainersCall(t, o).acc.visited

RECURSIVE ShapeOf(_)
\* A value with the content of its strings forgotten.
ShapeOf(v) ==
    IF v.t = "map" THEN MapV(v.kind, [k \in DOMAIN v.m |-> ShapeOf(v.m[k])])
    ELSE IF v.t = "str" THEN StrV(<< >>)
    ELSE v

TreeShape(t) == [k \in DOMAIN t |-> ShapeOf(t[k])]

\* Between the declaring mapping before (M) and after (N) a call, only the
\* fields that make up the declaration differ.
FieldsFrame(M, N) ==
    /\ DOMAIN N = DOMAIN M
    /\ \A k \in (DOMAIN M) \ {kImage, kTag} : N[k] = M[k]
    /\ IsObjectDecl(M) =>
          /\ kTag \in DOMAIN M => N[kTag] = M[kTag]
          /\ N[kImage].t = "map" /\ N[kImage].kind = M[kImage].kind
          /\ DOMAIN N[kImage].m = DOMAIN M[kImage].m
          /\ \A k \in (DOMAIN M[kImage].m) \ {kRepository, kTag} :
                N[kImage].m[k] = M[kImage].m[k]
    /\ IsFlatDecl(M) => (kTag \in DOMAIN M => N[kTag] = M[kTag])

-----------------------------------------------------------------------------
(* Properties *)

\* Containers() after the call lists the names it listed before the call,
\* in the same order, and the entry named as the call's container holds the
\* call's reference, whatever order the map yields its keys in.
RoundTrip ==
    LET Same(before, after) ==
            /\ NamesOf(after) = NamesOf(before)
            /\ \A i \in DOMAIN after :
                  after[i].Name = last.container => after[i].Image = last.ref
    IN  \A o \in RangeOrders(values) :
            Same(ContainersOf(pre, o), ContainersOf(values, o))

\* C1 as stated: after any successful SetContainerImage(n, newRef), a
\* following Containers() lists the same names in the same order and the
\* entry named n holds newRef.
C1_RoundTripAnyRef == SetSucceeded => RoundTrip

\* The strings the setter of the declaration in mapping M writes for ref
\* are read back as ref by the next scan: the full rendering in a flat
\* declaration, the name (with the tag beside it) in a split one, and
\* name ":" tag in a nested one.
ReadsBack(M, ref) ==
    LET Is(p, want) == p.ok /\ want = ref
        Flat(p) == Is(p, p.ref)
        SplitDecl(p) == Is(p, [p.ref EXCEPT !.Tag = ref.Tag])
    IN  IF IsObjectDecl(M)
        THEN Flat(ParseRef(NameString(ref) \o << ":" >> \o ref.Tag))
        ELSE IF IsSplitDecl(M)
        THEN SplitDecl(ParseRef(NameString(ref)))
        ELSE Flat(ParseRef(RefString(ref)))

\* The call writes the `tag` of a split declaration held in the top-level
\* `image` mapping, and that tag joined to the mapping's own `repository`
\* parses: the top-level `image` field matches the direct form afterwards.
TurnsDirectFormOn ==
    /\ ~DirectForm(pre)
    /\ last.container = kImage
    /\ IsSplitDecl(pre[kImage].m)
    /\ IsString(Lookup(pre[kImage].m, kRepository))
    /\ ParseRef(pre[kImage].m[kRepository].s \o << ":" >> \o last.ref.Tag).ok

\* C1 (amended): the set-then-read round trip holds for any reference and
\* any of the three shapes, in direct and per-container position, when the
\* strings the setter writes parse back to the reference and the write does
\* not make the top-level `image` mapping match the direct form.
C1_RoundTrip ==
    (/\ SetSucceeded
     /\ ReadsBack(DeclMap(pre, pre, last.container), last.ref)
     /\ ~TurnsDirectFormOn)
    => RoundTrip

C1_Witness ==
    /\ SetSucceeded
    /\ ~DirectForm(pre)
    /\ IsObjectDecl(pre[last.container].m)
    /\ ReadsBack(pre[last.container].m, last.ref)
    /\ last.ref.Tag # << >>
    /\ values # pre

\* C2: SetContainerImage with a name that no declaration of the scan
\* carries returns the not-found error naming that container and leaves the
\* tree as it was.
C2_NotFoundLeavesTree ==
    (/\ last.op = "SetContainerImage"
     /\ \A i \in DOMAIN last.visited : last.visited[i].Name # last.container)
    =>  /\ last.err = NotFoundErr(last.container)
        /\ values = pre

C2_Witness ==
    /\ last.op = "SetContainerImage"
    /\ last.err.kind = "notfound"
    /\ Len(last.visited) = 2

\* C3: when visit returns an error for a declaration, the scan stops there
\* and returns that error; it returns nil only when no visit call failed.
C3_VisitFailureAborts ==
    last.op = "Find" =>
        IF \E i \in DOMAIN last.returned : last.returned[i] # NilErr
        THEN LET i == CHOOSE i \in DOMAIN last.returned :
                          /\ last.returned[i] # NilErr
                          /\ \A j \in 1..(i - 1) : last.returned[j] = NilErr
             IN  last.err = last.returned[i] /\ Len(last.visited) = i
        ELSE last.err = NilErr

\* C4: a successful SetContainerImage changes only the fields of the one
\* matched declaration; every other declaration, sibling key and top-level
\* key keeps its value.
C4_Frame ==
    SetSucceeded =>
        IF DirectForm(pre)
        THEN FieldsFrame(pre, values)
        ELSE /\ DOMAIN values = DOMAIN pre
             /\ last.container \in DOMAIN pre
             /\ \A k \in (DOMAIN pre) \ {last.container} : values[k] = pre[k]
             /\ values[last.container].t = "map"
             /\ values[last.container].kind = pre[last.container].kind
             /\ FieldsFrame(pre[last.container].m, values[last.container].m)

C4_Witness ==
    /\ SetSucceeded
    /\ ~DirectForm(pre)
    /\ Len(last.visited) = 2
    /\ values # pre

\* C5: a setter keeps the shape of its declaration, after any sequence of
\* calls: no key is added or removed and no value changes type; a flat
\* declaration gets the full rendering in `image`, a split one the name in
\* `image` and the tag in `tag`, a nested one `repository` and `tag`.
C5_ShapeKept ==
    /\ TreeShape(values) = TreeShape(initial)
    /\ SetSucceeded =>
          LET M == DeclMap(pre, pre, last.container)
              N == DeclMap(pre, values, last.container)
          IN  IF IsObjectDecl(M)
              THEN /\ N[kImage].m[kRepository] = StrV(NameString(last.ref))
                   /\ N[kImage].m[kTag] = StrV(last.ref.Tag)
              ELSE IF IsSplitDecl(M)
              THEN /\ N[kImage] = StrV(NameString(last.ref))
                   /\ N[kTag] = StrV(last.ref.Tag)
              ELSE /\ N[kImage] = StrV(RefString(last.ref))
                   /\ kTag \notin DOMAIN M => kTag \notin DOMAIN N

C5_Witness ==
    /\ SetSucceeded
    /\ IsSplitDecl(DeclMap(pre, pre, last.container))
    /\ pre # initial
    /\ values # pre

\* C6: without a direct-form match the declarations are visited in strictly
\* ascending order of their keys, whatever order the map yields them in, and
\* a repeated Containers() returns the same sequence.
C6_SortedOrder ==
    last.op = "Containers" =>
        /\ ~DirectForm(values) =>
              \A i \in 1..(Len(last.visited) - 1) :
                  StrLess(last.visited[i].Name, last.visited[i + 1].Name)
        /\ \A o \in RangeOrders(values) : ContainersOf(values, o) = last.visited

C6_Witness ==
    /\ last.op = "Containers"
    /\ NamesOf(last.visited) = << kBar, kFoo >>

\* C7: when the top-level `image` field matches the direct form, the scan
\* visits exactly one declaration, named chart-image, and no per-container
\* declaration.
C7_DirectExcludesPerContainer ==
    (last.op # "init" /\ DirectForm(pre)) =>
        /\ Len(last.visited) = 1
        /\ last.visited[1].Name = ReleaseContainerName

C7_Witness ==
    /\ last.op = "Containers"
    /\ DirectForm(pre)
    /\ kBar \in DOMAIN pre
    /\ pre[kBar].t = "map"
    /\ DeclShape(pre[kBar].m)

\* C8: the JSON-decoded and the YAML-decoded tree of one document yield the
\* same scan and stay the same logical tree under every call.
C8_EncodingIndependent ==
    /\ Logical(values) = Logical(mirror)
    /\ last.visited = mlast.visited
    /\ last.setAt = mlast.setAt
    /\ last.err = mlast.err

C8_Witness ==
    /\ SetSucceeded
    /\ ~DirectForm(pre)
    /\ IsObjectDecl(pre[last.container].m)
    /\ pre[last.container].kind = "any"
    /\ values # pre
    /\ values # mirror

\* C9: the names visited in one scan are pairwise distinct, and
\* SetContainerImage calls at most one setter, that of the first visited
\* declaration with the requested name.
C9_DistinctNames ==
    /\ \A i, j \in DOMAIN last.visited :
          i # j => last.visited[i].Name # last.visited[j].Name
    /\ last.op = "SetContainerImage" =>
          IF \E i \in DOMAIN last.visited : last.visited[i].Name = last.container
          THEN last.setAt =
                  << CHOOSE i \in DOMAIN last.visited :
                        /\ last.visited[i].Name = last.container
                        /\ \A j \in 1..(i - 1) :
                              last.visited[j].Name # last.container >>
          ELSE last.setAt = << >>

C9_Witness ==
    /\ SetSucceeded
    /\ last.container = ReleaseContainerName
    /\ DirectForm(pre)
    /\ ReleaseContainerName \in DOMAIN pre
    /\ DeclShape(pre[ReleaseContainerName].m)

\* C10 as stated: without a direct-form match, no declaration named `image`
\* is visited.
C10_ImageKeyNeverVisited ==
    (last.op # "init" /\ ~DirectForm(pre)) =>
        \A i \in DOMAIN last.visited : last.visited[i].Name # kImage

\* C10 (amended): without a direct-form match the per-container scan takes
\* every top-level key, `image` included: a declaration named `image` is
\* visited exactly when the top-level `image` value is a mapping that itself
\* declares an image.
C10_ImageKeyIsAContainerKey ==
    (last.op # "init" /\ ~DirectForm(pre)) =>
        ((\E i \in DOMAIN last.visited : last.visited[i].Name = kImage)
            <=> (Lookup(pre, kImage).t = "map" /\ DeclShape(pre[kImage].m)))

C10_Witness ==
    /\ last.op = "Containers"
    /\ ~DirectForm(pre)
    /\ \E i \in DOMAIN last.visited : last.visited[i].Name = kImage

====
